---- MODULE Spec2Model ----
(***************************************************************************)
(* A model of app.py, the FIFA world cup dashboard script.  The script is  *)
(* a straight line of statements over one DataFrame (df); the model has    *)
(* one action per stage of the script, in the order of the source lines,   *)
(* followed by the interactive controls of the three figures that carry    *)
(* dropdowns or a slider.                                                  *)
(*                                                                         *)
(* Numbers: counts are integers.  The on-target percentage is a float in   *)
(* the script; it is modelled as [kind, h] where kind is "num", "nan" or   *)
(* "inf" and h is the value in hundredths (two decimals).                  *)
(***************************************************************************)
EXTENDS Integers, Sequences, FiniteSets, TLC

\* The largest number of match rows of an input file.
MaxRows == 2

(***************************************************************************)
(* Input domain                                                            *)
(***************************************************************************)

\* (team1, team2) of a match row.
Matchups ==
  { <<"Qatar", "Ecuador">>, <<"Senegal", "Qatar">>, <<"Ecuador", "Senegal">> }

CategoryNames == {"Group A", "Final"}

\* The date column, as the file writes it ('%d %b %Y'), and the statistics
\* columns of a match row.  The first line is a match without a single attempt.
Fixtures ==
  { [date |-> <<20, "NOV", 2022>>,
     total_attempts_team1 |-> 0, total_attempts_team2 |-> 0,
     on_target_attempts_team1 |-> 0, on_target_attempts_team2 |-> 0,
     number_of_goals_team1 |-> 0, number_of_goals_team2 |-> 0,
     assists_team1 |-> 0, assists_team2 |-> 0,
     possession_team1 |-> <<"5", "0", "%">>, possession_team2 |-> <<"4", "0", "%">>,
     possession_in_contest |-> <<"1", "0", "%">>],
    [date |-> <<20, "NOV", 2022>>,
     total_attempts_team1 |-> 2, total_attempts_team2 |-> 1,
     on_target_attempts_team1 |-> 1, on_target_attempts_team2 |-> 0,
     number_of_goals_team1 |-> 1, number_of_goals_team2 |-> 0,
     assists_team1 |-> 1, assists_team2 |-> 0,
     possession_team1 |-> <<"5", "5", "%">>, possession_team2 |-> <<"3", "5", "%">>,
     possession_in_contest |-> <<"1", "0", "%">>],
    [date |-> <<1, "DEC", 2022>>,
     total_attempts_team1 |-> 1, total_attempts_team2 |-> 2,
     on_target_attempts_team1 |-> 1, on_target_attempts_team2 |-> 1,
     number_of_goals_team1 |-> 0, number_of_goals_team2 |-> 2,
     assists_team1 |-> 0, assists_team2 |-> 1,
     possession_team1 |-> <<"3", "0", "%">>, possession_team2 |-> <<"6", "0", "%">>,
     possession_in_contest |-> <<"1", "0", "%">>] }

\* A column name is the sequence of its words and separators.
required_columns ==
  << <<"possession", "_", "team1">>, <<"possession", "_", "team2">>,
     <<"possession", "_", "in", "_", "contest">>,
     <<"number", "_", "of", "_", "goals", "_", "team1">>,
     <<"number", "_", "of", "_", "goals", "_", "team2">>,
     <<"total", "_", "attempts", "_", "team1">>,
     <<"total", "_", "attempts", "_", "team2">>,
     <<"on", "_", "target", "_", "attempts", "_", "team1">>,
     <<"on", "_", "target", "_", "attempts", "_", "team2">>,
     <<"team1">>, <<"team2">>, <<"date">>, <<"hour">>, <<"category">>,
     <<"assists", "_", "team1">>, <<"assists", "_", "team2">> >>

Range(s) == { s[i] : i \in DOMAIN s }

\* A name as the input file writes it: with spaces, or with underscores.
Spaced(name) == [i \in DOMAIN name |-> IF name[i] = "_" THEN " " ELSE name[i]]

\* The columns an input file may lack.
Droppable == { <<"date">>, <<"category">>, <<"assists", "_", "team2">> }

\* The header lines of the input files.
Headers ==
  { { IF spaced THEN Spaced(c) ELSE c : c \in Range(required_columns) \ drop } :
      spaced \in BOOLEAN, drop \in SUBSET Droppable }

\* A data row of an input file.  ts is the column line 11 adds.
RowOf(m, c, s) ==
  [ team1 |-> m[1], team2 |-> m[2], category |-> c, date |-> s.date, ts |-> 0,
    total_attempts_team1 |-> s.total_attempts_team1,
    total_attempts_team2 |-> s.total_attempts_team2,
    on_target_attempts_team1 |-> s.on_target_attempts_team1,
    on_target_attempts_team2 |-> s.on_target_attempts_team2,
    number_of_goals_team1 |-> s.number_of_goals_team1,
    number_of_goals_team2 |-> s.number_of_goals_team2,
    assists_team1 |-> s.assists_team1, assists_team2 |-> s.assists_team2,
    possession_team1 |-> s.possession_team1,
    possession_team2 |-> s.possession_team2,
    possession_in_contest |-> s.possession_in_contest ]

RowChoices == Matchups \X CategoryNames \X Fixtures

(***************************************************************************)
(* Helpers over sequences (pandas Series)                                  *)
(***************************************************************************)

\* A column of a table: df[name].
Col(rows, name) == [i \in DOMAIN rows |-> rows[i][name]]

RECURSIVE SumSeq(_)
\* Series.sum()
SumSeq(s) == IF s = <<>> THEN 0 ELSE Head(s) + SumSeq(Tail(s))

RECURSIVE UniqueFrom(_, _)
UniqueFrom(s, seen) ==
  IF s = <<>> THEN <<>>
  ELSE IF Head(s) \in seen THEN UniqueFrom(Tail(s), seen)
       ELSE <<Head(s)>> \o UniqueFrom(Tail(s), seen \cup {Head(s)})

\* Series.unique(): the distinct values in order of first appearance.
Unique(s) == UniqueFrom(s, {})

\* The orders a sort of rows by ts may leave them in.  sort_values uses
\* quicksort, which is not stable: rows of equal ts come out in any order.
SortedOrders(rows) ==
  { p \in [DOMAIN rows -> DOMAIN rows] :
      /\ \A i, j \in DOMAIN rows : i /= j => p[i] /= p[j]
      /\ \A i, j \in DOMAIN rows : i < j => rows[p[i]].ts <= rows[p[j]].ts }

Reorder(rows, p) == [i \in DOMAIN rows |-> rows[p[i]]]

(***************************************************************************)
(* Conversions                                                             *)
(***************************************************************************)

MonthNumber(b) == IF b = "NOV" THEN 11 ELSE 12

\* pd.to_datetime(date, format='%d %b %Y'), as a day ordinal.
ToDatetime(d) == d[3] * 10000 + MonthNumber(d[2]) * 100 + d[1]

\* str(date) of a timestamp: year-month-day.
StrDate(t) == [year |-> t \div 10000, month |-> (t \div 100) % 100, day |-> t % 100]

\* columns.str.replace(" ", "_")
ReplaceSpaces(name) ==
  [i \in DOMAIN name |-> IF name[i] = " " THEN "_" ELSE name[i]]

RECURSIVE RStrip(_, _)
\* str.rstrip(ch)
RStrip(s, ch) ==
  IF s /= <<>> /\ s[Len(s)] = ch THEN RStrip(SubSeq(s, 1, Len(s) - 1), ch) ELSE s

DigitValue(c) ==
  CASE c = "0" -> 0 [] c = "1" -> 1 [] c = "2" -> 2 [] c = "3" -> 3 [] c = "4" -> 4
    [] c = "5" -> 5 [] c = "6" -> 6 [] c = "7" -> 7 [] c = "8" -> 8 [] c = "9" -> 9

RECURSIVE AsFloat(_)
\* astype(float) of a string of digits
AsFloat(s) ==
  IF s = <<>> THEN 0 ELSE 10 * AsFloat(SubSeq(s, 1, Len(s) - 1)) + DigitValue(s[Len(s)])

Num(hundredths) == [kind |-> "num", h |-> hundredths]
NaN == [kind |-> "nan", h |-> 0]
Inf == [kind |-> "inf", h |-> 0]

\* n / d rounded to the nearest integer, ties to the even one (n >= 0, d > 0).
RoundHalfEven(n, d) ==
  LET q == n \div d
      r == n % d
  IN  IF 2 * r < d THEN q
      ELSE IF 2 * r > d THEN q + 1
      ELSE IF q % 2 = 0 THEN q ELSE q + 1

\* round((on / att) * 100, 2) on numpy numbers: a division by zero does not
\* raise, it yields nan (0 / 0) or inf.  (The script rounds the float product;
\* away from exact ties that is the rounding of the exact quotient.)
RoundedPct(on, att) ==
  IF att = 0 THEN (IF on = 0 THEN NaN ELSE Inf)
  ELSE Num(RoundHalfEven(10000 * on, att))

(***************************************************************************)
(* The aggregation, lines 36-55                                            *)
(***************************************************************************)

\* Mutant of TeamsOf: the team2 column is left out.
TeamsOf_Team1Only(rows) == Unique(Col(rows, "team1"))

\* teams = pd.concat([df['team1'], df['team2']]).unique()
TeamsOf(rows) == Unique(Col(rows, "team1") \o Col(rows, "team2"))

\* categories = df['category'].unique()
CategoriesOf(rows) == Unique(Col(rows, "category"))

\* team_data = df[(df['team1'] == team) | (df['team2'] == team)]
TeamData(rows, team) ==
  LET Involves(r) == r.team1 = team \/ r.team2 = team
  IN  SelectSeq(rows, Involves)

\* Mutant of CategoryData: the category filter is left out.
CategoryData_NoFilter(team_data, category) == team_data

\* category_data = team_data[team_data['category'] == category]
CategoryData(team_data, category) ==
  LET InCategory(r) == r.category = category
  IN  SelectSeq(team_data, InCategory)

TotalAttempts(cd) ==
  SumSeq(Col(cd, "total_attempts_team1")) + SumSeq(Col(cd, "total_attempts_team2"))

\* Mutant of OnTargetPct: the attempts of team2 are left out of the divisor.
OnTargetPct_Team1Attempts(cd) ==
  RoundedPct(SumSeq(Col(cd, "on_target_attempts_team1"))
               + SumSeq(Col(cd, "on_target_attempts_team2")),
             SumSeq(Col(cd, "total_attempts_team1")))

OnTargetPct(cd) ==
  RoundedPct(SumSeq(Col(cd, "on_target_attempts_team1"))
               + SumSeq(Col(cd, "on_target_attempts_team2")),
             SumSeq(Col(cd, "total_attempts_team1"))
               + SumSeq(Col(cd, "total_attempts_team2")))

Goals(cd) ==
  SumSeq(Col(cd, "number_of_goals_team1")) + SumSeq(Col(cd, "number_of_goals_team2"))

Assists(cd) ==
  SumSeq(Col(cd, "assists_team1")) + SumSeq(Col(cd, "assists_team2"))

\* Mutant of TeamMetrics: the empty case is not told apart.
TeamMetrics_NoDefault(rows, team, category) ==
  LET category_data == CategoryData(TeamData(rows, team), category)
  IN  [Team |-> team, TotalAttempts |-> TotalAttempts(category_data),
       OnTargetPct |-> OnTargetPct(category_data),
       Goals |-> Goals(category_data), Assists |-> Assists(category_data)]

\* One pass of the inner loop: the list appended to category_metrics.
TeamMetrics(rows, team, category) ==
  LET category_data == CategoryData(TeamData(rows, team), category)
  IN  IF category_data = <<>>
      THEN [Team |-> team, TotalAttempts |-> 0, OnTargetPct |-> Num(0),
            Goals |-> 0, Assists |-> 0]
      ELSE [Team |-> team, TotalAttempts |-> TotalAttempts(category_data),
            OnTargetPct |-> OnTargetPct(category_data),
            Goals |-> Goals(category_data), Assists |-> Assists(category_data)]

\* metrics: for each category the table with one row per team.
Metrics(rows, ts, cs) ==
  [c \in Range(cs) |-> [k \in DOMAIN ts |-> TeamMetrics(rows, ts[k], c)]]

VARIABLES
  pc,          \* the statement the script is at
  header,      \* the header line of the CSV file
  columns,     \* df.columns
  df,          \* the rows of df
  error,       \* the exception that ended the script
  validated,   \* the required-column check has passed
  colsRead,    \* the columns of df the script has read so far
  teams,       \* teams
  categories,  \* categories
  metrics,     \* metrics
  fig4,        \* the stacked bar chart
  fig1,        \* the parallel-coordinates plot
  fig2,        \* the 3D scatter chart
  df_sorted,   \* df_sorted
  fig3         \* the animated bubble chart

vars == <<pc, header, columns, df, error, validated, colsRead,
          teams, categories, metrics, fig4, fig1, fig2, df_sorted, fig3>>

figs == <<fig4, fig1, fig2, df_sorted, fig3>>

NoError == [type |-> "none", cols |-> <<>>]

\* The required columns a header lacks once its spaces are underscores.
MissingColumns(cols) ==
  LET Absent(c) == c \notin cols
  IN  SelectSeq(required_columns, Absent)

Init ==
  /\ pc = "parse_dates"
  /\ header \in Headers
  /\ columns = header
  /\ \E n \in 0..MaxRows :
       \E ch \in [1..n -> RowChoices] :
         df = [i \in 1..n |-> RowOf(ch[i][1], ch[i][2], ch[i][3])]
  /\ Len(df) > 1 => header = { Spaced(c) : c \in Range(required_columns) }
  /\ error = NoError
  /\ validated = FALSE
  /\ colsRead = {}
  /\ teams = <<>>
  /\ categories = <<>>
  /\ metrics = <<>>
  /\ fig4 = <<>>
  /\ fig1 = <<>>
  /\ fig2 = <<>>
  /\ df_sorted = <<>>
  /\ fig3 = <<>>

Raise(type, cols) ==
  /\ pc' = "error"
  /\ error' = [type |-> type, cols |-> cols]

\* line 11: df['ts'] = pd.to_datetime(df['date'], format='%d %b %Y')
ParseDates ==
  /\ pc = "parse_dates"
  /\ IF <<"date">> \notin columns
     THEN /\ Raise("KeyError", << <<"date">> >>)
          /\ UNCHANGED <<header, columns, df, validated, colsRead,
                         teams, categories, metrics, figs>>
     ELSE /\ df' = [i \in DOMAIN df |-> [df[i] EXCEPT !.ts = ToDatetime(df[i].date)]]
          /\ columns' = columns \cup { <<"ts">> }
          /\ colsRead' = colsRead \cup { <<"date">> }
          /\ pc' = "sort"
          /\ UNCHANGED <<header, error, validated, teams, categories, metrics, figs>>

\* line 14: df = df.sort_values(by='ts')
SortByTs ==
  /\ pc = "sort"
  /\ \E p \in SortedOrders(df) : df' = Reorder(df, p)
  /\ colsRead' = colsRead \cup { <<"ts">> }
  /\ pc' = "rename"
  /\ UNCHANGED <<header, columns, error, validated, teams, categories, metrics, figs>>

\* line 17: df.columns = df.columns.str.replace(" ", "_")
RenameColumns ==
  /\ pc = "rename"
  /\ columns' = { ReplaceSpaces(c) : c \in columns }
  /\ pc' = "validate"
  /\ UNCHANGED <<header, df, error, validated, colsRead, teams, categories, metrics, figs>>

\* lines 20-28: the required-column check
Validate ==
  /\ pc = "validate"
  /\ IF MissingColumns(columns) /= <<>>
     THEN /\ Raise("ValueError", MissingColumns(columns))
          /\ UNCHANGED validated
     ELSE /\ validated' = TRUE
          /\ pc' = "preprocess"
          /\ UNCHANGED error
  /\ UNCHANGED <<header, columns, df, colsRead, teams, categories, metrics, figs>>

\* lines 31-33: the possession columns lose their '%' and become floats
Preprocess ==
  /\ pc = "preprocess"
  /\ df' = [i \in DOMAIN df |->
              [df[i] EXCEPT
                 !.possession_team1 = AsFloat(RStrip(@, "%")),
                 !.possession_team2 = AsFloat(RStrip(@, "%")),
                 !.possession_in_contest = AsFloat(RStrip(@, "%"))]]
  /\ colsRead' = colsRead \cup
       { <<"possession", "_", "team1">>, <<"possession", "_", "team2">>,
         <<"possession", "_", "in", "_", "contest">> }
  /\ pc' = "aggregate"
  /\ UNCHANGED <<header, columns, error, validated, teams, categories, metrics, figs>>

\* lines 36-55: teams, categories and the metrics of every (category, team)
Aggregate ==
  /\ pc = "aggregate"
  /\ teams' = TeamsOf(df)
  /\ categories' = CategoriesOf(df)
  /\ metrics' = Metrics(df, TeamsOf(df), CategoriesOf(df))
  /\ colsRead' = colsRead \cup
       { <<"team1">>, <<"team2">>, <<"category">>,
         <<"total", "_", "attempts", "_", "team1">>,
         <<"total", "_", "attempts", "_", "team2">>,
         <<"on", "_", "target", "_", "attempts", "_", "team1">>,
         <<"on", "_", "target", "_", "attempts", "_", "team2">>,
         <<"number", "_", "of", "_", "goals", "_", "team1">>,
         <<"number", "_", "of", "_", "goals", "_", "team2">>,
         <<"assists", "_", "team1">>, <<"assists", "_", "team2">> }
  /\ pc' = "fig4"
  /\ UNCHANGED <<header, columns, df, error, validated, figs>>

(***************************************************************************)
(* fig4, the stacked bar chart, lines 57-137                               *)
(***************************************************************************)

\* The metric columns of a metrics table, in the order of the traces.
MetricFields == <<"TotalAttempts", "OnTargetPct", "Goals", "Assists">>
MetricNames == <<"Total Attempts", "On-Target %", "Goals", "Assists">>

\* f'{val:.2f}'
Format2f(col) == [j \in DOMAIN col |-> [format |-> ".2f", value |-> col[j]]]
\* a Series passed as text
RawText(col) == [j \in DOMAIN col |-> [format |-> "raw", value |-> col[j]]]

\* lines 67-101: the four add_trace calls on the default category's table
Fig4Traces(metrics_df) ==
  [k \in DOMAIN MetricFields |->
     [name |-> MetricNames[k],
      x |-> Col(metrics_df, "Team"),
      y |-> Col(metrics_df, MetricFields[k]),
      text |-> Format2f(Col(metrics_df, MetricFields[k]))]]

\* Mutant of Fig4Buttons: the Goals and Assists columns change places in y.
Fig4Buttons_Swapped(cs, ms) ==
  [b \in DOMAIN cs |->
     [label |-> cs[b],
      x |-> [k \in DOMAIN MetricFields |-> Col(ms[cs[b]], "Team")],
      y |-> <<Col(ms[cs[b]], "TotalAttempts"), Col(ms[cs[b]], "OnTargetPct"),
              Col(ms[cs[b]], "Assists"), Col(ms[cs[b]], "Goals")>>,
      text |-> [k \in DOMAIN MetricFields |-> RawText(Col(ms[cs[b]], MetricFields[k]))]]]

\* lines 120-128: one button per category, its args restyle the four traces
Fig4Buttons(cs, ms) ==
  [b \in DOMAIN cs |->
     [label |-> cs[b],
      x |-> [k \in DOMAIN MetricFields |-> Col(ms[cs[b]], "Team")],
      y |-> [k \in DOMAIN MetricFields |-> Col(ms[cs[b]], MetricFields[k])],
      text |-> [k \in DOMAIN MetricFields |-> RawText(Col(ms[cs[b]], MetricFields[k]))]]]

\* lines 57-137.  categories[0] of an empty array is an IndexError.
BuildFig4 ==
  /\ pc = "fig4"
  /\ IF categories = <<>>
     THEN /\ Raise("IndexError", <<>>)
          /\ UNCHANGED fig4
     ELSE /\ fig4' = [traces |-> Fig4Traces(metrics[categories[1]]),
                      buttons |-> Fig4Buttons(categories, metrics),
                      active |-> 0]
          /\ pc' = "fig1"
          /\ UNCHANGED error
  /\ UNCHANGED <<header, columns, df, validated, colsRead, teams, categories,
                 metrics, fig1, fig2, df_sorted, fig3>>

(***************************************************************************)
(* fig1, the parallel-coordinates plot, lines 140-152                      *)
(***************************************************************************)

BuildFig1 ==
  /\ pc = "fig1"
  /\ fig1' = [dimensions |->
                <<"possession_team1", "possession_team2", "number_of_goals_team1",
                  "number_of_goals_team2", "total_attempts_team1",
                  "total_attempts_team2">>,
              color |-> Col(df, "number_of_goals_team1"),
              lines |-> Len(df)]
  /\ pc' = "fig2"
  /\ UNCHANGED <<header, columns, df, error, validated, colsRead, teams, categories,
                 metrics, fig4, fig2, df_sorted, fig3>>

(***************************************************************************)
(* fig2, the 3D scatter chart, lines 158-230                               *)
(***************************************************************************)

\* lines 161-178: one trace per row for team 1, visible
Team1Traces(rows) ==
  [i \in DOMAIN rows |->
     [x |-> rows[i].total_attempts_team1, y |-> rows[i].possession_team1,
      z |-> rows[i].number_of_goals_team1, size |-> rows[i].on_target_attempts_team1,
      name |-> <<rows[i].team1, "vs", rows[i].team2, rows[i].date>>,
      text |-> <<rows[i].team1, rows[i].date>>,
      visible |-> TRUE]]

\* lines 181-198: one trace per row for team 2, hidden
Team2Traces(rows) ==
  [i \in DOMAIN rows |->
     [x |-> rows[i].total_attempts_team2, y |-> rows[i].possession_team2,
      z |-> rows[i].number_of_goals_team2, size |-> rows[i].on_target_attempts_team2,
      name |-> <<rows[i].team1, "vs", rows[i].team2, rows[i].date>>,
      text |-> <<rows[i].team2, rows[i].date>>,
      visible |-> FALSE]]

\* Mutant of Fig2Buttons: i > len(df) for i >= len(df).
Fig2Buttons_OffByOne(n) ==
  << [label |-> "Team 1", visible |-> [j \in 1..(2 * n) |-> (j - 1) < n]],
     [label |-> "Team 2", visible |-> [j \in 1..(2 * n) |-> (j - 1) > n]] >>

\* lines 201-212: range(len(df)*2) is 0 .. 2n-1, position i+1 of the list
Fig2Buttons(n) ==
  << [label |-> "Team 1", visible |-> [j \in 1..(2 * n) |-> (j - 1) < n]],
     [label |-> "Team 2", visible |-> [j \in 1..(2 * n) |-> (j - 1) >= n]] >>

BuildFig2 ==
  /\ pc = "fig2"
  /\ fig2' = [traces |-> Team1Traces(df) \o Team2Traces(df),
              buttons |-> Fig2Buttons(Len(df)),
              active |-> 0]
  /\ pc' = "fig3"
  /\ UNCHANGED <<header, columns, df, error, validated, colsRead, teams, categories,
                 metrics, fig4, fig1, df_sorted, fig3>>

(***************************************************************************)
(* fig3, the animated bubble chart, lines 246-417                          *)
(***************************************************************************)

\* lines 376-382: one slider step per distinct ts, animating to str(date)
Fig3Steps(sorted) ==
  LET dates == Unique(Col(sorted, "ts"))
  IN  [s \in DOMAIN dates |->
         [method |-> "animate", target |-> StrDate(dates[s]),
          label |-> StrDate(dates[s])]]

\* Mutant of FrameData: the rows up to the date, not the rows of the date.
FrameData_UpTo(sorted, date) ==
  LET UpToDate(r) == r.ts <= date
  IN  SelectSeq(sorted, UpToDate)

\* frame_data = df_sorted[df_sorted['ts'] == date]
FrameData(sorted, date) ==
  LET OnDate(r) == r.ts = date
  IN  SelectSeq(sorted, OnDate)

\* lines 387-414: one frame per distinct ts with a team1 and a team2 trace
Fig3Frames(sorted) ==
  LET dates == Unique(Col(sorted, "ts"))
  IN  [f \in DOMAIN dates |->
         LET frame_data == FrameData(sorted, dates[f])
         IN  [name |-> StrDate(dates[f]),
              data |-> << [x |-> Col(frame_data, "team1"),
                           y |-> Col(frame_data, "number_of_goals_team1"),
                           size |-> Col(frame_data, "total_attempts_team1")],
                          [x |-> Col(frame_data, "team2"),
                           y |-> Col(frame_data, "number_of_goals_team2"),
                           size |-> Col(frame_data, "total_attempts_team2")] >>]]

\* lines 271-301: the team 2 trace of the base figure
Team2Trace(sorted) ==
  [x |-> Col(sorted, "team2"), y |-> Col(sorted, "number_of_goals_team2"),
   size |-> Col(sorted, "total_attempts_team2"),
   customdata |-> [i \in DOMAIN sorted |->
                     <<sorted[i].team1, sorted[i].number_of_goals_team1,
                       sorted[i].total_attempts_team1, sorted[i].ts>>]]

\* lines 246-417.  shown is the frame on display (0: the base figure), active
\* the slider's step.
BuildFig3 ==
  /\ pc = "fig3"
  /\ \E p \in SortedOrders(df) :
       /\ df_sorted' = Reorder(df, p)
       /\ fig3' = [team2_trace |-> Team2Trace(Reorder(df, p)),
                   steps |-> Fig3Steps(Reorder(df, p)),
                   frames |-> Fig3Frames(Reorder(df, p)),
                   active |-> 0,
                   shown |-> 0]
  /\ pc' = "layout"
  /\ UNCHANGED <<header, columns, df, error, validated, colsRead, teams, categories,
                 metrics, fig4, fig1, fig2>>

(***************************************************************************)
(* The page, lines 422-451, and its controls                               *)
(***************************************************************************)

\* lines 422-451: the layout holds the four figures and the server starts
Serve ==
  /\ pc = "layout"
  /\ pc' = "serving"
  /\ UNCHANGED <<header, columns, df, error, validated, colsRead, teams, categories,
                 metrics, figs>>

\* A choice in fig2's dropdown: method 'update' restyles trace j with the
\* j-th element of the button's visible list.
SelectTeam(b) ==
  /\ pc = "serving"
  /\ fig2' = [fig2 EXCEPT
                !.traces = [j \in DOMAIN fig2.traces |->
                              [fig2.traces[j] EXCEPT !.visible = fig2.buttons[b].visible[j]]],
                !.active = b - 1]
  /\ UNCHANGED <<pc, header, columns, df, error, validated, colsRead, teams,
                 categories, metrics, fig4, fig1, df_sorted, fig3>>

\* A choice in fig4's dropdown: trace k takes the k-th x, y and text.
SelectCategory(b) ==
  /\ pc = "serving"
  /\ fig4' = [fig4 EXCEPT
                !.traces = [k \in DOMAIN fig4.traces |->
                              [fig4.traces[k] EXCEPT
                                 !.x = fig4.buttons[b].x[k],
                                 !.y = fig4.buttons[b].y[k],
                                 !.text = fig4.buttons[b].text[k]]],
                !.active = b - 1]
  /\ UNCHANGED <<pc, header, columns, df, error, validated, colsRead, teams,
                 categories, metrics, fig1, fig2, df_sorted, fig3>>

\* The frames of fig3 with a given name.
FramesNamed(name) == { f \in DOMAIN fig3.frames : fig3.frames[f].name = name }

\* A move of fig3's slider to step s: method 'animate' to the frame its args
\* name; a name no frame carries animates nothing.
SliderStep(s) ==
  /\ pc = "serving"
  /\ s \in DOMAIN fig3.steps
  /\ fig3' = [fig3 EXCEPT
                !.active = s - 1,
                !.shown = IF FramesNamed(fig3.steps[s].target) = {} THEN @
                          ELSE CHOOSE f \in FramesNamed(fig3.steps[s].target) :
                                 \A g \in FramesNamed(fig3.steps[s].target) : f <= g]
  /\ UNCHANGED <<pc, header, columns, df, error, validated, colsRead, teams,
                 categories, metrics, fig4, fig1, fig2, df_sorted>>

Next ==
  \/ ParseDates
  \/ SortByTs
  \/ RenameColumns
  \/ Validate
  \/ Preprocess
  \/ Aggregate
  \/ BuildFig4
  \/ BuildFig1
  \/ BuildFig2
  \/ BuildFig3
  \/ Serve
  \/ \E b \in 1..2 : SelectTeam(b)
  \/ \E b \in 1..Len(categories) : SelectCategory(b)
  \/ \E s \in 1..MaxRows : SliderStep(s)

Spec == Init /\ [][Next]_vars
(***************************************************************************)
(* What the claims speak of, stated over the rows of df                    *)
(***************************************************************************)

\* Every value occurring in team1 or team2, and in the category column.
AllTeams == { df[i].team1 : i \in DOMAIN df } \cup { df[i].team2 : i \in DOMAIN df }
AllCategories == { df[i].category : i \in DOMAIN df }

\* The rows of category C in which T is team1 or team2.
Matching(T, C) ==
  { i \in DOMAIN df : df[i].category = C /\ (df[i].team1 = T \/ df[i].team2 = T) }

RECURSIVE SumOver(_, _)
\* The sum of a column over a set of rows.
SumOver(S, name) ==
  IF S = {} THEN 0
  ELSE LET i == CHOOSE j \in S : TRUE
       IN  df[i][name] + SumOver(S \ {i}, name)

AttemptsOf(T, C) ==
  SumOver(Matching(T, C), "total_attempts_team1")
    + SumOver(Matching(T, C), "total_attempts_team2")
OnTargetOf(T, C) ==
  SumOver(Matching(T, C), "on_target_attempts_team1")
    + SumOver(Matching(T, C), "on_target_attempts_team2")
GoalsOf(T, C) ==
  SumOver(Matching(T, C), "number_of_goals_team1")
    + SumOver(Matching(T, C), "number_of_goals_team2")
AssistsOf(T, C) ==
  SumOver(Matching(T, C), "assists_team1") + SumOver(Matching(T, C), "assists_team2")

Abs(x) == IF x < 0 THEN 0 - x ELSE x

\* p is 100 * on / att to two decimals, the quotient being the floating-point
\* one: nan for 0 / 0 and inf for a nonzero numerator over 0.
IsPercentage(p, on, att) ==
  IF att = 0 THEN p = (IF on = 0 THEN NaN ELSE Inf)
  ELSE p.kind = "num" /\ 2 * Abs(p.h * att - 10000 * on) <= att

\* The aggregation loop has run.
Aggregated == pc \in {"fig4", "fig1", "fig2", "fig3", "layout", "serving"}

\* The records of metrics for (T, C).
RecordsOf(T, C) ==
  IF C \in DOMAIN metrics
  THEN { metrics[C][k] : k \in { j \in DOMAIN metrics[C] : metrics[C][j].Team = T } }
  ELSE {}

(***************************************************************************)
(* C1.  As stated: for every team T and category C of the table, the       *)
(* on-target percentage of the (T, C) record is 100 * (on-target of both   *)
(* teams) / (attempts of both teams) over the rows of category C that      *)
(* involve T, to two decimals.  It fails for a pair without a matching    *)
(* row, whose record is 0 while the quotient is 0 / 0.                     *)
(***************************************************************************)
C1_AsStated ==
  Aggregated =>
    \A T \in AllTeams, C \in AllCategories :
      /\ RecordsOf(T, C) /= {}
      /\ \A r \in RecordsOf(T, C) :
           IsPercentage(r.OnTargetPct, OnTargetOf(T, C), AttemptsOf(T, C))

(***************************************************************************)
(* C1, amended: for every pair (T, C) with at least one matching row the   *)
(* on-target percentage is that quotient to two decimals (nan or inf when  *)
(* the summed attempts are zero); for a pair without a matching row it is  *)
(* 0.                                                                      *)
(***************************************************************************)
C1_OnTargetPct ==
  Aggregated =>
    \A T \in AllTeams, C \in AllCategories :
      /\ RecordsOf(T, C) /= {}
      /\ \A r \in RecordsOf(T, C) :
           IF Matching(T, C) = {} THEN r.OnTargetPct = Num(0)
           ELSE IsPercentage(r.OnTargetPct, OnTargetOf(T, C), AttemptsOf(T, C))

\* A pair with a matching row and a quotient that needs rounding, beside a
\* pair without a matching row.
C1_Witness ==
  /\ Aggregated
  /\ \E T \in AllTeams, C \in AllCategories :
       /\ Matching(T, C) /= {}
       /\ AttemptsOf(T, C) > 0
       /\ (10000 * OnTargetOf(T, C)) % AttemptsOf(T, C) /= 0
  /\ \E T \in AllTeams, C \in AllCategories : Matching(T, C) = {}

(***************************************************************************)
(* C2.  The claim: every (team, category) pair with a matching row whose   *)
(* summed attempts are zero has an on-target percentage that is the        *)
(* number zero, never nan.  The script divides 0 by 0 there.               *)
(***************************************************************************)
C2_ZeroAttemptsGuarded ==
  Aggregated =>
    \A T \in AllTeams, C \in AllCategories :
      (Matching(T, C) /= {} /\ AttemptsOf(T, C) = 0) =>
        /\ RecordsOf(T, C) /= {}
        /\ \A r \in RecordsOf(T, C) :
             r.OnTargetPct = Num(0)

(***************************************************************************)
(* C3.  There is exactly one record for every (team, category): metrics    *)
(* has one table per distinct category, each table has one row per         *)
(* distinct team, none missing and none twice, and the teams are in the    *)
(* same order in every table.                                              *)
(***************************************************************************)
C3_OneRecordPerPair ==
  Aggregated =>
    /\ DOMAIN metrics = AllCategories
    /\ \A C \in DOMAIN metrics :
         /\ Len(metrics[C]) = Cardinality(AllTeams)
         /\ \A T \in AllTeams : Cardinality({ k \in DOMAIN metrics[C] : metrics[C][k].Team = T }) = 1
    /\ \A C, D \in DOMAIN metrics :
         \A k \in DOMAIN metrics[C] : metrics[C][k].Team = metrics[D][k].Team

\* Three teams of which one is never team1, and two categories.
C3_Witness ==
  /\ Aggregated
  /\ Cardinality(AllTeams) = 3
  /\ Cardinality(AllCategories) = 2
  /\ \E T \in AllTeams : \A i \in DOMAIN df : df[i].team1 /= T

(***************************************************************************)
(* C4.  A pair without a matching row has the all-zero record; a pair with *)
(* a matching row has the record computed from its rows, not the default.  *)
(***************************************************************************)
C4_DefaultOnlyWhenEmpty ==
  Aggregated =>
    \A T \in AllTeams, C \in AllCategories :
      /\ RecordsOf(T, C) /= {}
      /\ \A r \in RecordsOf(T, C) :
            IF Matching(T, C) = {}
            THEN r = [Team |-> T, TotalAttempts |-> 0, OnTargetPct |-> Num(0),
                      Goals |-> 0, Assists |-> 0]
            ELSE r = [Team |-> T, TotalAttempts |-> AttemptsOf(T, C),
                      OnTargetPct |-> RoundedPct(OnTargetOf(T, C), AttemptsOf(T, C)),
                      Goals |-> GoalsOf(T, C), Assists |-> AssistsOf(T, C)]

\* A pair without a matching row beside a pair whose rows have attempts.
C4_Witness ==
  /\ Aggregated
  /\ \E T \in AllTeams, C \in AllCategories : Matching(T, C) = {}
  /\ \E T \in AllTeams, C \in AllCategories :
       Matching(T, C) /= {} /\ AttemptsOf(T, C) > 0 /\ GoalsOf(T, C) > 0

(***************************************************************************)
(* C5.  For a pair with a matching row, total attempts, goals and assists  *)
(* are each the sum of the _team1 column plus the sum of the _team2 column *)
(* over the matching rows and no others.                                   *)
(***************************************************************************)
C5_Sums ==
  Aggregated =>
    \A T \in AllTeams, C \in AllCategories :
      Matching(T, C) /= {} =>
        /\ RecordsOf(T, C) /= {}
        /\ \A r \in RecordsOf(T, C) :
             /\ r.TotalAttempts = AttemptsOf(T, C)
             /\ r.Goals = GoalsOf(T, C)
             /\ r.Assists = AssistsOf(T, C)

\* A pair whose matching rows hold goals, in a table that also holds a row
\* of T in another category with goals of its own.
C5_Witness ==
  /\ Aggregated
  /\ \E T \in AllTeams, C \in AllCategories :
       /\ Matching(T, C) /= {}
       /\ SumOver(Matching(T, C), "number_of_goals_team1") > 0
       /\ \E i \in DOMAIN df \ Matching(T, C) :
            /\ df[i].team1 = T \/ df[i].team2 = T
            /\ df[i].number_of_goals_team2 > 0

(***************************************************************************)
(* C6.  The claim: when a required column is absent from the file (its     *)
(* spaces read as underscores), the script ends with a ValueError listing  *)
(* every missing column, and nothing is aggregated and no chart is built.  *)
(* Without the date column the script ends at line 11 with a KeyError.     *)
(***************************************************************************)
HeaderMissing == MissingColumns({ ReplaceSpaces(c) : c \in header })

C6_MissingColumnsValueError ==
  HeaderMissing /= <<>> =>
    /\ pc \in {"parse_dates", "sort", "rename", "validate", "error"}
    /\ pc = "error" => error = [type |-> "ValueError", cols |-> HeaderMissing]
    /\ metrics = <<>> /\ fig4 = <<>> /\ fig1 = <<>> /\ fig2 = <<>> /\ fig3 = <<>>

(***************************************************************************)
(* C7.  The claim: the stages run in the order load, validate, transform,  *)
(* aggregate, build, serve: no column of the table is read, parsed or      *)
(* sorted on before the required-column check has passed, and the          *)
(* aggregation comes after the transformations.  Lines 11 and 14 parse and *)
(* sort on the date before the check of line 26.                           *)
(***************************************************************************)
C7_ValidateFirst ==
  /\ colsRead /= {} => validated
  /\ Aggregated => validated
(***************************************************************************)
(* C8.  fig2 has 2N traces for N rows, trace i the team1 point of row i    *)
(* and trace N+i its team2 point.  At all times exactly N traces are       *)
(* visible: the team1 traces when the dropdown stands on 'Team 1' (as it   *)
(* does before any selection), the team2 traces when it stands on          *)
(* 'Team 2'; never a mix and never none.                                   *)
(***************************************************************************)
VisibleTraces == { j \in DOMAIN fig2.traces : fig2.traces[j].visible }

C8_OneTeamVisible ==
  fig2 /= <<>> =>
    LET N == Len(df)
    IN  /\ N >= 1
        /\ Len(fig2.traces) = 2 * N
        /\ \A i \in 1..N :
             /\ fig2.traces[i].text = <<df[i].team1, df[i].date>>
             /\ fig2.traces[i].x = df[i].total_attempts_team1
             /\ fig2.traces[i].z = df[i].number_of_goals_team1
             /\ fig2.traces[N + i].text = <<df[i].team2, df[i].date>>
             /\ fig2.traces[N + i].x = df[i].total_attempts_team2
             /\ fig2.traces[N + i].z = df[i].number_of_goals_team2
        /\ pc /= "serving" => fig2.active = 0
        /\ fig2.buttons[fig2.active + 1].label = "Team 1" => VisibleTraces = 1..N
        /\ fig2.buttons[fig2.active + 1].label = "Team 2" => VisibleTraces = (N + 1)..(2 * N)
        /\ Cardinality(VisibleTraces) = N

\* 'Team 2' selected on a chart of two rows.
C8_Witness ==
  /\ pc = "serving"
  /\ Len(df) = 2
  /\ fig2.active = 1
  /\ fig2.traces[3].visible /\ fig2.traces[4].visible

(***************************************************************************)
(* C9.  fig4 has one button per distinct category and the four traces      *)
(* Total Attempts, On-Target %, Goals, Assists.  At all times trace k      *)
(* shows, for every team, the k-th metric of the table of the category the *)
(* dropdown stands on: the first category of the table before any          *)
(* selection, the last selected one after.                                 *)
(***************************************************************************)
C9_TracesShowSelectedCategory ==
  fig4 /= <<>> =>
    /\ Len(fig4.buttons) = Cardinality(AllCategories)
    /\ { fig4.buttons[b].label : b \in DOMAIN fig4.buttons } = AllCategories
    /\ [k \in DOMAIN fig4.traces |-> fig4.traces[k].name]
         = <<"Total Attempts", "On-Target %", "Goals", "Assists">>
    /\ pc /= "serving" => fig4.active = 0
    /\ fig4.buttons[1].label = df[1].category
    /\ LET shown == metrics[fig4.buttons[fig4.active + 1].label]
       IN  /\ \A k \in 1..4 :
                fig4.traces[k].x = [j \in DOMAIN shown |-> shown[j].Team]
           /\ fig4.traces[1].y = [j \in DOMAIN shown |-> shown[j].TotalAttempts]
           /\ fig4.traces[2].y = [j \in DOMAIN shown |-> shown[j].OnTargetPct]
           /\ fig4.traces[3].y = [j \in DOMAIN shown |-> shown[j].Goals]
           /\ fig4.traces[4].y = [j \in DOMAIN shown |-> shown[j].Assists]

\* The second category selected, its table differing from the first one's in
\* goals and in assists.
C9_Witness ==
  /\ pc = "serving"
  /\ Len(categories) = 2
  /\ fig4.active = 1
  /\ Col(metrics[categories[1]], "Goals") /= Col(metrics[categories[2]], "Goals")
  /\ Col(metrics[categories[2]], "Goals") /= Col(metrics[categories[2]], "Assists")

(***************************************************************************)
(* C10.  The frames and the slider steps of fig3 correspond one to one to  *)
(* the distinct match dates in ascending order: step s targets the name of *)
(* frame s, no two frames share a name, and every row is in exactly one    *)
(* frame, that of its date, its team1 point in the first trace and its     *)
(* team2 point in the second.                                              *)
(***************************************************************************)
AllDates == { df[i].ts : i \in DOMAIN df }

C10_FramesPartitionByDate ==
  fig3 /= <<>> =>
    /\ Len(fig3.frames) = Cardinality(AllDates)
    /\ Len(fig3.steps) = Len(fig3.frames)
    /\ \A f \in DOMAIN fig3.frames :
         /\ fig3.steps[f].target = fig3.frames[f].name
         /\ \E d \in AllDates :
              /\ fig3.frames[f].name = StrDate(d)
              /\ Cardinality({ e \in AllDates : e < d }) = f - 1
    /\ \A f, g \in DOMAIN fig3.frames :
         f /= g => fig3.frames[f].name /= fig3.frames[g].name
    /\ Len(df_sorted) = Len(df)
    /\ SumSeq([f \in DOMAIN fig3.frames |-> Len(fig3.frames[f].data[1].x)]) = Len(df)
    /\ \A f \in DOMAIN fig3.frames :
         Len(fig3.frames[f].data[2].x) = Len(fig3.frames[f].data[1].x)
    /\ \A i \in DOMAIN df_sorted :
         \E f \in DOMAIN fig3.frames :
           /\ fig3.frames[f].name = StrDate(df_sorted[i].ts)
           /\ \E j \in DOMAIN fig3.frames[f].data[1].x :
                /\ fig3.frames[f].data[1].x[j] = df_sorted[i].team1
                /\ fig3.frames[f].data[1].y[j] = df_sorted[i].number_of_goals_team1
                /\ fig3.frames[f].data[1].size[j] = df_sorted[i].total_attempts_team1
                /\ fig3.frames[f].data[2].x[j] = df_sorted[i].team2
                /\ fig3.frames[f].data[2].y[j] = df_sorted[i].number_of_goals_team2
                /\ fig3.frames[f].data[2].size[j] = df_sorted[i].total_attempts_team2
    /\ fig3.shown /= 0 => fig3.frames[fig3.shown].name = fig3.steps[fig3.active + 1].target

\* The slider on the second of two dates, the two frames showing different
\* teams.
C10_Witness ==
  /\ pc = "serving"
  /\ Len(fig3.frames) = 2
  /\ fig3.shown = 2
  /\ fig3.frames[1].data[1].x /= fig3.frames[2].data[1].x
====
